---- MODULE Spec2Model ----
(***************************************************************************)
(* Model of cookbook.py: a Streamlit script that reads a sidebar radio     *)
(* and runs the example block whose guard equals the selected label.       *)
(* The script is re-run top to bottom after every user interaction.        *)
(* Floats of the script are modelled by integers (25.0 is 25); a randn     *)
(* cell is modelled by its sign (-1, 0, 1).                                *)
(***************************************************************************)
EXTENDS Integers, Sequences, FiniteSets, TLC

VARIABLES
    radio,          \* front-end state of the sidebar radio (index into MenuOptions)
    slider,         \* front-end state of the range slider <<lo, hi>>
    multiselect,    \* front-end state of the multiselect: chosen row labels, in order
    gender,         \* front-end state of selectbox "gender" (index into options)
    column,         \* front-end state of selectbox "Describe Column" (index)
    pc,             \* position of the running script
    cookbook,       \* script variable bound at line 5
    df,             \* script variable df (lines 37, 60, 121, 204)
    dataset,        \* script variable dataset (line 186)
    figure,         \* matplotlib's process-global current figure
    artifacts,      \* elements displayed by the current run, in order
    executed,       \* numbers of the blocks whose body ran in the current run
    cache,          \* st.cache store of load_data: <<>> or <<value>>
    loadCount,      \* how many times the body of load_data has run
    prevArtifacts,  \* artifacts of the previous run, kept when the run is a plain rerun
    isRerun,        \* TRUE when the current run was started with unchanged inputs
    interacted,     \* TRUE once the user has interacted
    sliderMoved,    \* TRUE once the user has moved the range slider
    fmtFn,          \* label-function study: which format_func is applied
    fmtOptions,     \* label-function study: the options handed to the selectbox
    fmtLabels,      \* label-function study: the outcome of computing the labels
    fmtPc           \* label-function study: "call" or "done"

vars == <<radio, slider, multiselect, gender, column, pc, cookbook, df, dataset,
          figure, artifacts, executed, cache, loadCount, prevArtifacts, isRerun,
          interacted, sliderMoved, fmtFn, fmtOptions, fmtLabels, fmtPc>>

widgetVars == <<radio, slider, multiselect, gender, column>>
fmtVars == <<fmtFn, fmtOptions, fmtLabels, fmtPc>>
histVars == <<prevArtifacts, isRerun, interacted, sliderMoved>>

----------------------------------------------------------------------------
(* Bounds *)

\* the slider is sampled at SliderPoints + 1 evenly spaced positions
SliderPoints == 4
\* random draws (randn table, word-cloud layout) are sampled from 0..MaxSeed
MaxSeed == 8
\* loadCount saturates here
MaxLoads == 3
\* label-function study: integer keys range over -MaxKey..MaxKey
MaxKey == 3
\* label-function study: at most this many options per selectbox
MaxOpts == 2

----------------------------------------------------------------------------
(* Python values *)

PyNone == "<None>"
Unbound == "<unbound>"

Ret(v) == [raised |-> FALSE, value |-> v]
Raise(e) == [raised |-> TRUE, value |-> e]

\* str(): the identity on strings, "None" on None
Str(v) == IF v = PyNone THEN "None" ELSE v

Min(a, b) == IF a <= b THEN a ELSE b

\* t[x] on a tuple, with Python's negative indices
TupleGetItem(t, x) ==
    IF 0 <= x /\ x < Len(t) THEN Ret(t[x + 1])
    ELSE IF -Len(t) <= x /\ x < 0 THEN Ret(t[Len(t) + x + 1])
    ELSE Raise("IndexError")

DictGetPlaceholder(d, k) ==
    IF \E i \in 1..Len(d) : d[i][1] = k
    THEN Ret(d[CHOOSE i \in 1..Len(d) : d[i][1] = k][2])
    ELSE Ret("no label")

\* d.get(k) on a dict kept as a sequence of <<key, value>> pairs
DictGet(d, k) ==
    IF \E i \in 1..Len(d) : d[i][1] = k
    THEN Ret(d[CHOOSE i \in 1..Len(d) : d[i][1] = k][2])
    ELSE Ret(PyNone)

----------------------------------------------------------------------------
(* pandas *)

UnboundDf == [bound |-> FALSE, columns |-> <<>>, index |-> <<>>, rows |-> <<>>]

\* pd.DataFrame(rows, columns=...): default RangeIndex 0..n-1
PdDataFrame(columns, rows) ==
    [bound |-> TRUE, columns |-> columns,
     index |-> [i \in 1..Len(rows) |-> i - 1], rows |-> rows]

\* pd.DataFrame({name: values, ...}): one row per position of the value lists
DataFrameFromDict(names, data) ==
    PdDataFrame(names,
        [i \in 1..Len(data[1]) |-> [j \in 1..Len(names) |-> data[j][i]]])

LocByPosition(frame, labels) ==
    [bound |-> TRUE, columns |-> frame.columns, index |-> labels,
     rows |-> [k \in 1..Len(labels) |-> frame.rows[Min(k, Len(frame.rows))]]]

\* df.loc[labels]: the rows with these index labels, in the order of labels
Loc(frame, labels) ==
    [bound |-> TRUE, columns |-> frame.columns, index |-> labels,
     rows |-> [k \in 1..Len(labels) |->
                 frame.rows[CHOOSE p \in 1..Len(frame.index) :
                                frame.index[p] = labels[k]]]]

----------------------------------------------------------------------------
(* The menu and the guards *)

\* the options of st.sidebar.radio
MenuOptions ==
    << "Description", "Dataframe formatting", "Side-by-side charts",
       "Select rows", "Range slider", "Advanced selectbox", "Seaborn",
       "Wordcloud", "Emojis" >>

NumBlocks == 9

GuardLabelTypo(i) ==
    IF i = 3 THEN "Side by side charts" ELSE MenuOptions[i]

\* the string literal compared with cookbook by the i-th if statement
GuardLabel(i) ==
    CASE i = 1 -> "Description"
      [] i = 2 -> "Dataframe formatting"
      [] i = 3 -> "Side-by-side charts"
      [] i = 4 -> "Select rows"
      [] i = 5 -> "Range slider"
      [] i = 6 -> "Advanced selectbox"
      [] i = 7 -> "Seaborn"
      [] i = 8 -> "Wordcloud"
      [] i = 9 -> "Emojis"

RadioValueNext(index) == MenuOptions[(index % Len(MenuOptions)) + 1]

\* st.sidebar.radio returns options[index]
RadioValue(index) == MenuOptions[index]

----------------------------------------------------------------------------
(* Display elements *)

Markdown(text) == [kind |-> "markdown", body |-> text]
\* the source shown by st.echo() when its with-block ends
EchoCode(first, last) == [kind |-> "code", body |-> <<first, last>>]
DataframeElt(frame) == [kind |-> "dataframe", data |-> frame]
ValueElt(v) == [kind |-> "value", value |-> v]
ExceptionElt(e) == [kind |-> "exception", body |-> e]

----------------------------------------------------------------------------
(* Dataframe formatting, lines 30-45 *)

RandnRows == 3
RandnCols == 5

\* 3^k
RECURSIVE Pow3(_)
Pow3(k) == IF k = 0 THEN 1 ELSE 3 * Pow3(k - 1)

\* np.random.randn(3, 5): the sign of every cell, read off the base-3
\* digits of the draw (cells past the digits of MaxSeed are negative)
Randn(seed) ==
    [r \in 1..RandnRows |->
        [c \in 1..RandnCols |->
            ((seed \div Pow3((r - 1) * RandnCols + (c - 1))) % 3) - 1]]

\* ("col %d" % i for i in range(5))
ColNames == << "col 0", "col 1", "col 2", "col 3", "col 4" >>

\* "background-color: {}".format(arg), kept as its three parts
FormatBackground(arg) == << "background-color", ": ", arg >>

\* color_value(val): the conditional expression spans the whole return value
color_value(val) ==
    IF val < 0 THEN FormatBackground("red") ELSE << "black" >>

\* df.style.applymap(f): f applied to every cell
StyleApplymap(frame) ==
    [kind |-> "styled_dataframe", data |-> frame,
     styles |-> [r \in 1..Len(frame.rows) |->
                   [c \in 1..Len(frame.columns) |-> color_value(frame.rows[r][c])]]]

DataframeFormattingDf(seed) == PdDataFrame(ColNames, Randn(seed))

DataframeFormattingOutput(frame) ==
    << Markdown("## Formatting Dataframes"),
       StyleApplymap(frame),
       EchoCode(37, 45) >>

----------------------------------------------------------------------------
(* Description, lines 20-28 *)

DescriptionOutput == << Markdown("## Streamlit Cookbook") >>

----------------------------------------------------------------------------
(* Side-by-side charts, lines 47-112 *)

SideBySideDf ==
    DataFrameFromDict(<< "year", "animal", "count" >>,
        << << "2010", "2011", "2010", "2011" >>,
           << "antelope", "antelope", "velociraptor", "velociraptor" >>,
           << 8, 6, 2, 4 >> >>)

AltairChart(frame) ==
    [kind |-> "altair_chart", data |-> frame, mark |-> "bar",
     x |-> "animal", y |-> "count", facet |-> "year"]

PlotlyFigure ==
    [kind |-> "plotly_chart",
     scatter |-> [x |-> << 5, 20, 35 >>, y |-> << 30, 20, 10 >>],
     bar |-> [x |-> << "velociraptor_2010", "velociraptor_2011",
                       "velociraptor_2012", "velociraptor_2013" >>,
              y |-> << 5, 8, 11, 14 >>]]

SideBySideOutput(frame) ==
    << Markdown("## Side-by-side charts"),
       AltairChart(frame),
       EchoCode(57, 77),
       Markdown("### Plotly example"),
       PlotlyFigure,
       EchoCode(81, 112) >>

----------------------------------------------------------------------------
(* Select rows, lines 114-133 *)

SelectRowsDf ==
    DataFrameFromDict(<< "date", "users", "events" >>,
        << << "2019-08-01", "2019-08-01", "2019-08-02", "2019-08-02" >>,
           << "Sara", "James", "Sara", "James" >>,
           << "3", "2", "5", "1" >> >>)

MultiselectDefault == << >>

\* st.multiselect(label, options): returns the chosen options in the order chosen
MultiselectElt(label, opts, chosen) ==
    [kind |-> "multiselect", label |-> label, options |-> opts, value |-> chosen]

SelectRowsOutput(frame, selected_indices) ==
    << Markdown("## Select rows in a dataframe"),
       Markdown("### Full Dataset"),
       DataframeElt(frame),
       MultiselectElt("Select rows:", frame.index, selected_indices),
       Markdown("### Selected Rows"),
       DataframeElt(Loc(frame, selected_indices)) >>

----------------------------------------------------------------------------
(* Range slider, lines 135-143 *)

SliderMin == 0
SliderMax == 100
SliderDefaultReversed == << 75, 25 >>
SliderDefault == << 25, 75 >>

\* the positions the two thumbs are sampled at
SliderGrid ==
    { SliderMin + (k * (SliderMax - SliderMin)) \div SliderPoints : k \in 0..SliderPoints }

SliderElt(label, lo, hi, value) ==
    [kind |-> "slider", label |-> label, min |-> lo, max |-> hi, value |-> value]

RangeSliderOutput(values) ==
    << Markdown("## Range slider"),
       SliderElt("Select a range of values", SliderMin, SliderMax, values),
       Markdown("Selected values:"),
       ValueElt(values),
       EchoCode(141, 143) >>

----------------------------------------------------------------------------
(* Advanced selectbox, lines 145-192 *)

display == << "male", "female" >>

\* list(range(len(display)))
options == [i \in 1..Len(display) |-> i - 1]

cols ==
    << << "Airport__Name", "Airport Name" >>,
       << "Aircraft__Make_Model", "Aircraft Make & Model" >>,
       << "Effect__Amount_of_damage", "Effect: Amount of Damage" >>,
       << "Flight_Date", "Flight Date" >>,
       << "Aircraft__Airline_Operator", "Airline Operator" >>,
       << "Origin_State", "Origin State" >>,
       << "When__Phase_of_flight", "When (Phase of Flight)" >>,
       << "Wildlife__Size", "Wildlife Size" >>,
       << "Wildlife__Species", "Wildlife Species" >>,
       << "When__Time_of_day", "When (Time of Day)" >>,
       << "Cost__Other", "Cost (Other)" >>,
       << "Cost__Repair", "Cost (Repair)" >>,
       << "Cost__Total_$", "Cost (Total) ($)" >>,
       << "Speed_IAS_in_knots", "Speed (in Knots)" >> >>

\* the columns of the frame returned by data.birdstrikes()
BirdstrikesColumns ==
    << "Airport__Name", "Aircraft__Make_Model", "Effect__Amount_of_damage",
       "Flight_Date", "Aircraft__Airline_Operator", "Origin_State",
       "When__Phase_of_flight", "Wildlife__Size", "Wildlife__Species",
       "When__Time_of_day", "Cost__Other", "Cost__Repair", "Cost__Total_$",
       "Speed_IAS_in_knots" >>

UnboundDataset == [bound |-> FALSE, columns |-> <<>>, load |-> 0]

\* the body of load_data; load numbers the execution that built the frame
load_data(n) == [bound |-> TRUE, columns |-> BirdstrikesColumns, load |-> n]

UncachedLoadData(store, n) ==
    [value |-> load_data(n + 1), cache |-> << load_data(n + 1) >>,
     loads |-> Min(n + 1, MaxLoads)]

\* @st.cache around load_data: the body runs on a miss only
CachedLoadData(store, n) ==
    IF store # << >>
    THEN [value |-> store[1], cache |-> store, loads |-> n]
    ELSE [value |-> load_data(n + 1), cache |-> << load_data(n + 1) >>,
          loads |-> Min(n + 1, MaxLoads)]

\* the two format_func arguments: lambda x: display[x] and cols.get
FormatFunc(fn, x) ==
    IF fn = "display" THEN TupleGetItem(display, x) ELSE DictGet(cols, x)

SelectboxLabelsRaw(fn, opts) ==
    Ret([i \in 1..Len(opts) |-> opts[i]])

\* st.selectbox shows str(format_func(option)) for every option; an
\* exception of format_func propagates
SelectboxLabels(fn, opts) ==
    IF \E i \in 1..Len(opts) : FormatFunc(fn, opts[i]).raised
    THEN Raise(FormatFunc(fn, opts[CHOOSE i \in 1..Len(opts) :
                                      FormatFunc(fn, opts[i]).raised]).value)
    ELSE Ret([i \in 1..Len(opts) |-> Str(FormatFunc(fn, opts[i]).value)])

\* st.selectbox returns options[index], the raw option
SelectboxValue(labels, opts, index) == opts[index]

SelectboxElt(label, opts, labels, index) ==
    [kind |-> "selectbox", label |-> label, options |-> opts,
     labels |-> labels, index |-> index]

GenderDefault == 1
ColumnDefault == 1

\* lines 152-159
Example1Output(index) ==
    LET labels == SelectboxLabels("display", options)
    IN  IF labels.raised
        THEN << ExceptionElt(labels.value) >>
        ELSE << SelectboxElt("gender", options, labels.value, index),
                ValueElt(SelectboxValue(labels.value, options, index)),
                EchoCode(153, 159) >>

\* lines 162-192
Example2Output(data, index) ==
    LET labels == SelectboxLabels("cols", data.columns)
    IN  IF labels.raised
        THEN << ExceptionElt(labels.value) >>
        ELSE << SelectboxElt("Describe Column", data.columns, labels.value, index),
                [kind |-> "describe",
                 column |-> SelectboxValue(labels.value, data.columns, index)],
                EchoCode(163, 192) >>

AdvancedSelectboxOutput(data, genderIndex, columnIndex) ==
    << Markdown("## Advanced st.selectbox functionality") >>
    \o Example1Output(genderIndex)
    \o << Markdown("### Example 2") >>
    \o Example2Output(data, columnIndex)

----------------------------------------------------------------------------
(* matplotlib and the last three blocks, lines 195-236 *)

PyplotKeep(fig) == fig

\* st.pyplot() with no figure argument clears the global figure after rendering
PyplotClear(fig) == << >>

PyplotElt(fig) == [kind |-> "pyplot", elements |-> fig]

SeabornDf ==
    DataFrameFromDict(<< "x", "y" >>, << << 1, 2, 3 >>, << 10, 30, 70 >> >>)

\* sns.lineplot(x="x", y="y", data=df) draws on the current figure
Lineplot(fig, frame) ==
    Append(fig, [plot |-> "line", x |-> "x", y |-> "y", data |-> frame])

text == "Fun, fun, awesome, awesome, tubular, astounding, superb, great, amazing, amazing, amazing, amazing"

\* WordCloud().generate(text): no random_state is given, so the layout
\* is drawn afresh
WordCloudGenerate(txt, seed) == [text |-> txt, layout |-> seed]

\* plt.imshow(wordcloud, ...); plt.axis("off")
Imshow(fig, image) == Append(fig, [plot |-> "image", image |-> image, axis |-> "off"])

SeabornOutput(fig) ==
    << Markdown("## Seaborn in Streamlit"), PyplotElt(fig), EchoCode(202, 206) >>

WordcloudOutput(fig) ==
    << Markdown("## Create a Wordcloud"), PyplotElt(fig), EchoCode(215, 227) >>

EmojisOutput ==
    << Markdown("## Emojis in Streamlit"),
       Markdown("Showing :heart: for Streamlit :raised_hands:"),
       EchoCode(236, 236) >>

----------------------------------------------------------------------------
(* The script run *)

AtLine5 == 0
Finished == NumBlocks + 1
Idle == NumBlocks + 2

InExecuted(i) == \E k \in 1..Len(executed) : executed[k] = i

InitScript ==
    /\ radio = 1
    /\ slider = SliderDefault
    /\ multiselect = MultiselectDefault
    /\ gender = GenderDefault
    /\ column = ColumnDefault
    /\ pc = AtLine5
    /\ cookbook = Unbound
    /\ df = UnboundDf
    /\ dataset = UnboundDataset
    /\ figure = << >>
    /\ artifacts = << >>
    /\ executed = << >>
    /\ cache = << >>
    /\ loadCount = 0
    /\ prevArtifacts = << >>
    /\ isRerun = FALSE
    /\ interacted = FALSE
    /\ sliderMoved = FALSE

Init ==
    /\ InitScript
    /\ fmtFn = "none"
    /\ fmtOptions = << >>
    /\ fmtLabels = Ret(<< >>)
    /\ fmtPc = "off"

\* lines 5-18: cookbook = st.sidebar.radio(...)
ReadSelection ==
    /\ pc = AtLine5
    /\ cookbook' = RadioValue(radio)
    /\ pc' = 1
    /\ UNCHANGED <<widgetVars, df, dataset, figure, artifacts, executed, cache,
                   loadCount, histVars, fmtVars>>

\* lines 20-28
DescriptionBlock ==
    /\ pc = 1
    /\ IF cookbook = GuardLabel(1)
       THEN /\ artifacts' = artifacts \o DescriptionOutput
            /\ executed' = Append(executed, 1)
       ELSE UNCHANGED <<artifacts, executed>>
    /\ pc' = 2
    /\ UNCHANGED <<widgetVars, cookbook, df, dataset, figure, cache, loadCount,
                   histVars, fmtVars>>

\* lines 30-45
DataframeFormattingBlock ==
    /\ pc = 2
    /\ IF cookbook = GuardLabel(2)
       THEN \E seed \in 0..MaxSeed :
              /\ df' = DataframeFormattingDf(seed)
              /\ artifacts' = artifacts \o DataframeFormattingOutput(df')
              /\ executed' = Append(executed, 2)
       ELSE UNCHANGED <<df, artifacts, executed>>
    /\ pc' = 3
    /\ UNCHANGED <<widgetVars, cookbook, dataset, figure, cache, loadCount,
                   histVars, fmtVars>>

\* lines 47-112
SideBySideChartsBlock ==
    /\ pc = 3
    /\ IF cookbook = GuardLabel(3)
       THEN /\ df' = SideBySideDf
            /\ artifacts' = artifacts \o SideBySideOutput(df')
            /\ executed' = Append(executed, 3)
       ELSE UNCHANGED <<df, artifacts, executed>>
    /\ pc' = 4
    /\ UNCHANGED <<widgetVars, cookbook, dataset, figure, cache, loadCount,
                   histVars, fmtVars>>

\* lines 114-133
SelectRowsBlock ==
    /\ pc = 4
    /\ IF cookbook = GuardLabel(4)
       THEN /\ df' = SelectRowsDf
            /\ artifacts' = artifacts \o SelectRowsOutput(df', multiselect)
            /\ executed' = Append(executed, 4)
       ELSE UNCHANGED <<df, artifacts, executed>>
    /\ pc' = 5
    /\ UNCHANGED <<widgetVars, cookbook, dataset, figure, cache, loadCount,
                   histVars, fmtVars>>

\* lines 135-143
RangeSliderBlock ==
    /\ pc = 5
    /\ IF cookbook = GuardLabel(5)
       THEN /\ artifacts' = artifacts \o RangeSliderOutput(slider)
            /\ executed' = Append(executed, 5)
       ELSE UNCHANGED <<artifacts, executed>>
    /\ pc' = 6
    /\ UNCHANGED <<widgetVars, cookbook, df, dataset, figure, cache, loadCount,
                   histVars, fmtVars>>

\* lines 145-192
AdvancedSelectboxBlock ==
    /\ pc = 6
    /\ IF cookbook = GuardLabel(6)
       THEN LET loaded == CachedLoadData(cache, loadCount)
            IN  /\ cache' = loaded.cache
                /\ loadCount' = loaded.loads
                /\ dataset' = loaded.value
                /\ artifacts' = artifacts
                                 \o AdvancedSelectboxOutput(dataset', gender, column)
                /\ executed' = Append(executed, 6)
       ELSE UNCHANGED <<dataset, cache, loadCount, artifacts, executed>>
    /\ pc' = 7
    /\ UNCHANGED <<widgetVars, cookbook, df, figure, histVars, fmtVars>>

\* lines 195-206
SeabornBlock ==
    /\ pc = 7
    /\ IF cookbook = GuardLabel(7)
       THEN /\ df' = SeabornDf
            /\ artifacts' = artifacts \o SeabornOutput(Lineplot(figure, df'))
            /\ figure' = PyplotClear(Lineplot(figure, df'))
            /\ executed' = Append(executed, 7)
       ELSE UNCHANGED <<df, figure, artifacts, executed>>
    /\ pc' = 8
    /\ UNCHANGED <<widgetVars, cookbook, dataset, cache, loadCount, histVars,
                   fmtVars>>

\* lines 209-227
WordcloudBlock ==
    /\ pc = 8
    /\ IF cookbook = GuardLabel(8)
       THEN \E seed \in 0..MaxSeed :
              LET wordcloud == WordCloudGenerate(text, seed)
              IN  /\ artifacts' = artifacts
                                   \o WordcloudOutput(Imshow(figure, wordcloud))
                  /\ figure' = PyplotClear(Imshow(figure, wordcloud))
                  /\ executed' = Append(executed, 8)
       ELSE UNCHANGED <<figure, artifacts, executed>>
    /\ pc' = 9
    /\ UNCHANGED <<widgetVars, cookbook, df, dataset, cache, loadCount, histVars,
                   fmtVars>>

\* lines 229-236
EmojisBlock ==
    /\ pc = 9
    /\ IF cookbook = GuardLabel(9)
       THEN /\ artifacts' = artifacts \o EmojisOutput
            /\ executed' = Append(executed, 9)
       ELSE UNCHANGED <<artifacts, executed>>
    /\ pc' = Finished
    /\ UNCHANGED <<widgetVars, cookbook, df, dataset, figure, cache, loadCount,
                   histVars, fmtVars>>

\* the end of the script: the state of a widget the run did not create is
\* dropped, so the widget starts from its default when it is created again
FinishRun ==
    /\ pc = Finished
    /\ pc' = Idle
    /\ multiselect' = IF InExecuted(4) THEN multiselect ELSE MultiselectDefault
    /\ slider' = IF InExecuted(5) THEN slider ELSE SliderDefault
    /\ gender' = IF InExecuted(6) THEN gender ELSE GenderDefault
    /\ column' = IF InExecuted(6) THEN column ELSE ColumnDefault
    /\ UNCHANGED <<radio, cookbook, df, dataset, figure, artifacts, executed,
                   cache, loadCount, histVars, fmtVars>>

----------------------------------------------------------------------------
(* User interactions: each one starts a new run of the script in a fresh    *)
(* namespace                                                               *)

StartRun(changed, moved) ==
    /\ pc = Idle
    /\ pc' = AtLine5
    /\ cookbook' = Unbound
    /\ df' = UnboundDf
    /\ dataset' = UnboundDataset
    /\ artifacts' = << >>
    /\ executed' = << >>
    /\ prevArtifacts' = IF changed THEN << >> ELSE artifacts
    /\ isRerun' = ~changed
    /\ interacted' = TRUE
    /\ sliderMoved' = (sliderMoved \/ moved)
    /\ UNCHANGED <<figure, cache, loadCount, fmtVars>>

\* a click on another option of the sidebar radio (lines 5-18)
SelectMenu ==
    \E i \in 1..Len(MenuOptions) :
        /\ i # radio
        /\ radio' = i
        /\ StartRun(TRUE, FALSE)
        /\ UNCHANGED <<slider, multiselect, gender, column>>

\* a move of the range slider (line 141): the thumbs stay inside the
\* bounds and do not cross
SliderMove ==
    \E lo \in SliderGrid, hi \in SliderGrid :
        /\ InExecuted(5)
        /\ lo <= hi
        /\ << lo, hi >> # slider
        /\ slider' = << lo, hi >>
        /\ StartRun(TRUE, TRUE)
        /\ UNCHANGED <<radio, multiselect, gender, column>>

\* picking one more row in the multiselect (line 131)
MultiselectAdd ==
    \E k \in 1..Len(SelectRowsDf.index) :
        /\ InExecuted(4)
        /\ \A j \in 1..Len(multiselect) : multiselect[j] # SelectRowsDf.index[k]
        /\ multiselect' = Append(multiselect, SelectRowsDf.index[k])
        /\ StartRun(TRUE, FALSE)
        /\ UNCHANGED <<radio, slider, gender, column>>

\* removing a chosen row from the multiselect (line 131)
MultiselectRemove ==
    \E k \in 1..Len(multiselect) :
        /\ InExecuted(4)
        /\ multiselect' = [j \in 1..(Len(multiselect) - 1) |->
                              IF j < k THEN multiselect[j] ELSE multiselect[j + 1]]
        /\ StartRun(TRUE, FALSE)
        /\ UNCHANGED <<radio, slider, gender, column>>

\* choosing an option of selectbox "gender" (line 157)
SelectGender ==
    \E i \in 1..Len(options) :
        /\ InExecuted(6)
        /\ i # gender
        /\ gender' = i
        /\ StartRun(TRUE, FALSE)
        /\ UNCHANGED <<radio, slider, multiselect, column>>

\* choosing an option of selectbox "Describe Column" (lines 188-190)
SelectColumn ==
    \E i \in 1..Len(BirdstrikesColumns) :
        /\ InExecuted(6)
        /\ i # column
        /\ column' = i
        /\ StartRun(TRUE, FALSE)
        /\ UNCHANGED <<radio, slider, multiselect, gender>>

\* a rerun with every widget unchanged
Rerun ==
    /\ StartRun(FALSE, FALSE)
    /\ UNCHANGED widgetVars

Next ==
    \/ ReadSelection
    \/ DescriptionBlock
    \/ DataframeFormattingBlock
    \/ SideBySideChartsBlock
    \/ SelectRowsBlock
    \/ RangeSliderBlock
    \/ AdvancedSelectboxBlock
    \/ SeabornBlock
    \/ WordcloudBlock
    \/ EmojisBlock
    \/ FinishRun
    \/ SelectMenu
    \/ SliderMove
    \/ MultiselectAdd
    \/ MultiselectRemove
    \/ SelectGender
    \/ SelectColumn
    \/ Rerun

Spec == Init /\ [][Next]_vars

----------------------------------------------------------------------------
(* The label functions on their own: any options, mapped or not *)

UnmappedKeys == { "index", "Airport Name", "" }

ColsKeys == { BirdstrikesColumns[i] : i \in 1..Len(BirdstrikesColumns) } \cup UnmappedKeys
DisplayKeys == (-MaxKey)..MaxKey

OptionLists(keys) ==
    UNION { [1..n -> keys] : n \in 1..MaxOpts }

InitFormat ==
    /\ InitScript
    /\ fmtFn \in { "display", "cols" }
    /\ fmtOptions \in (IF fmtFn = "display" THEN OptionLists(DisplayKeys)
                       ELSE OptionLists(ColsKeys))
    /\ fmtLabels = Ret(<< >>)
    /\ fmtPc = "call"

\* st.selectbox(label, options, format_func=...) computing its labels
\* (lines 157 and 188-190)
FormatOptions ==
    /\ fmtPc = "call"
    /\ fmtLabels' = SelectboxLabels(fmtFn, fmtOptions)
    /\ fmtPc' = "done"
    /\ UNCHANGED <<widgetVars, pc, cookbook, df, dataset, figure, artifacts,
                   executed, cache, loadCount, histVars, fmtFn, fmtOptions>>

NextFormat == FormatOptions

SpecFormat == InitFormat /\ [][NextFormat]_vars

----------------------------------------------------------------------------
(* Properties *)

BlockOf(label) == CHOOSE i \in 1..Len(MenuOptions) : MenuOptions[i] = label

\* C1: when a run has finished, exactly one block has run, it is the block
\* of the selected menu label, and at least one element is displayed; during
\* the run no block other than the selected one has run.
C1_ExactlyOneBlock ==
    /\ \A k \in 1..Len(executed) : MenuOptions[executed[k]] = cookbook
    /\ pc = Idle =>
         /\ cookbook = MenuOptions[radio]
         /\ executed = << BlockOf(cookbook) >>
         /\ Len(artifacts) >= 1

C1_Witness == pc = Idle /\ cookbook = "Wordcloud" /\ executed = << 8 >>

\* C2 as stated: a rerun with the same selection and widget values displays
\* exactly the elements of the run before it, for every menu label.
C2_RerunIdentical ==
    (pc = Idle /\ isRerun) => artifacts = prevArtifacts

RandomLabels == { "Dataframe formatting", "Wordcloud" }

SameKinds(a, b) ==
    /\ Len(a) = Len(b)
    /\ \A k \in 1..Len(a) : a[k].kind = b[k].kind

\* C2 amended: a rerun with the same selection and widget values displays
\* exactly the elements of the run before it for every label except
\* "Dataframe formatting" and "Wordcloud"; for these two the rerun displays
\* the same kinds of elements in the same order (and the table has the same
\* column names), while the drawn cells or the layout may differ.
C2_RerunIdenticalUnlessRandom ==
    (pc = Idle /\ isRerun) =>
        IF cookbook \in RandomLabels
        THEN /\ SameKinds(artifacts, prevArtifacts)
             /\ cookbook = "Dataframe formatting" =>
                    artifacts[2].data.columns = prevArtifacts[2].data.columns
        ELSE artifacts = prevArtifacts

C2_Witness ==
    pc = Idle /\ isRerun /\ cookbook = "Seaborn" /\ Len(prevArtifacts) = 3

\* C3: the value echoed by the Range slider block is a pair <<lo, hi>> with
\* 0 <= lo <= hi <= 100, and it is <<25, 75>> as long as the slider has not
\* been moved.
C3_SliderRange ==
    (pc = Idle /\ cookbook = "Range slider") =>
        LET values == artifacts[4].value
        IN  /\ artifacts[4].kind = "value"
            /\ Len(values) = 2
            /\ 0 <= values[1]
            /\ values[1] <= values[2]
            /\ values[2] <= 100
            /\ ~sliderMoved => values = << 25, 75 >>

C3_Witness ==
    /\ pc = Idle
    /\ cookbook = "Range slider"
    /\ sliderMoved
    /\ artifacts[4].value = << 0, 100 >>

FullRow(i) ==
    CASE i = 0 -> << "2019-08-01", "Sara", "3" >>
      [] i = 1 -> << "2019-08-01", "James", "2" >>
      [] i = 2 -> << "2019-08-02", "Sara", "5" >>
      [] i = 3 -> << "2019-08-02", "James", "1" >>

SeqRange(q) == { q[k] : k \in 1..Len(q) }

\* C4: the "Selected Rows" table holds exactly the rows whose index was
\* chosen, each once and with its own cells, under the columns date, users,
\* events; with nothing chosen it has no rows.
C4_SelectedRows ==
    (pc = Idle /\ cookbook = "Select rows") =>
        LET selected_rows == artifacts[6].data
        IN  /\ artifacts[5] = Markdown("### Selected Rows")
            /\ selected_rows.columns = << "date", "users", "events" >>
            /\ SeqRange(selected_rows.index) = SeqRange(multiselect)
            /\ Len(selected_rows.rows) = Cardinality(SeqRange(multiselect))
            /\ Len(selected_rows.index) = Len(selected_rows.rows)
            /\ \A k \in 1..Len(selected_rows.rows) :
                   selected_rows.rows[k] = FullRow(selected_rows.index[k])
            /\ multiselect = << >> => selected_rows.rows = << >>

C4_Witness ==
    /\ pc = Idle
    /\ cookbook = "Select rows"
    /\ SeqRange(multiselect) = { 0, 2 }
    /\ Len(artifacts[6].data.rows) = 2

\* C5: in the Advanced selectbox block every option of a selectbox is shown
\* under the label its format function maps it to (display[x], cols.get),
\* and the value the block goes on to use is the raw option.
C5_LabelsMappedValueRaw ==
    (pc = Idle /\ cookbook = "Advanced selectbox") =>
        /\ LET box == artifacts[6]
           IN  /\ box.kind = "selectbox"
               /\ Len(box.labels) = Len(box.options)
               /\ \A i \in 1..Len(box.options) :
                      \E j \in 1..Len(cols) :
                          cols[j][1] = box.options[i] /\ cols[j][2] = box.labels[i]
               /\ artifacts[7].column = box.options[column]
               /\ artifacts[7].column = BirdstrikesColumns[column]
        /\ LET box == artifacts[2]
           IN  /\ box.kind = "selectbox"
               /\ Len(box.labels) = Len(box.options)
               /\ \A i \in 1..Len(box.options) :
                      box.labels[i] = display[box.options[i] + 1]
               /\ artifacts[3].value = box.options[gender]
               /\ artifacts[3].value = gender - 1

C5_Witness ==
    /\ pc = Idle
    /\ cookbook = "Advanced selectbox"
    /\ gender = 2
    /\ column = 3
    /\ artifacts[3].value = 1
    /\ artifacts[6].labels[3] = "Effect: Amount of Damage"

NoEntry(fn, x) ==
    IF fn = "display"
    THEN x < -Len(display) \/ x >= Len(display)
    ELSE \A j \in 1..Len(cols) : cols[j][1] # x

\* C6 as stated: an option without an entry in the label mapping is shown
\* as "no label" and nothing is raised, for display[x] and for cols.get.
C6_NoLabelPlaceholder ==
    fmtPc = "done" =>
        /\ ~fmtLabels.raised
        /\ \A i \in 1..Len(fmtOptions) :
               NoEntry(fmtFn, fmtOptions[i]) => fmtLabels.value[i] = "no label"

\* C6 amended: with cols.get an option without an entry is shown as "None"
\* (the str of None) and nothing is raised; with display[x] an index outside
\* -2..1 raises IndexError and no label is shown; there is no "no label".
C6_NoneOrIndexError ==
    fmtPc = "done" =>
        /\ fmtFn = "cols" =>
              /\ ~fmtLabels.raised
              /\ \A i \in 1..Len(fmtOptions) :
                     NoEntry(fmtFn, fmtOptions[i]) => fmtLabels.value[i] = "None"
        /\ fmtFn = "display" =>
              /\ fmtLabels.raised <=>
                     \E i \in 1..Len(fmtOptions) : NoEntry(fmtFn, fmtOptions[i])
              /\ fmtLabels.raised => fmtLabels.value = "IndexError"

C6_Witness ==
    /\ fmtPc = "done"
    /\ fmtFn = "cols"
    /\ fmtOptions = << "Flight_Date", "Airport Name" >>
    /\ fmtLabels = Ret(<< "Flight Date", "None" >>)

WellFormedStyle(style) ==
    /\ Len(style) = 3
    /\ style[1] \in { "color", "background-color" }
    /\ style[2] = ": "
    /\ style[3] # ""

\* C7: color_value gives every negative cell one style and every other cell
\* another, both of the form "property: value".
C7_TwoColourStyles ==
    (pc = Idle /\ cookbook = "Dataframe formatting") =>
        LET styled == artifacts[2]
        IN  \A r \in 1..Len(styled.styles) : \A c \in 1..Len(styled.styles[r]) :
               /\ WellFormedStyle(styled.styles[r][c])
               /\ \A r2 \in 1..Len(styled.styles) : \A c2 \in 1..Len(styled.styles[r2]) :
                      (styled.styles[r][c] = styled.styles[r2][c2])
                          <=> ((styled.data.rows[r][c] < 0)
                                   <=> (styled.data.rows[r2][c2] < 0))

\* C8: the body of load_data runs once, in the first run of the Advanced
\* selectbox block; every run of the block uses the frame built then.
C8_LoadedOnce ==
    /\ loadCount <= 1
    /\ cache # << >> => loadCount = 1
    /\ dataset.bound => (dataset.load = 1 /\ loadCount = 1 /\ cache = << dataset >>)
    /\ (pc = Idle /\ cookbook = "Advanced selectbox") => dataset.bound

C8_Witness ==
    /\ pc = Idle
    /\ cookbook = "Advanced selectbox"
    /\ isRerun
    /\ dataset.load = 1

ExpectedOutput(label) ==
    CASE label = "Description" -> { DescriptionOutput }
      [] label = "Dataframe formatting" ->
            { DataframeFormattingOutput(DataframeFormattingDf(seed)) :
                  seed \in 0..MaxSeed }
      [] label = "Side-by-side charts" -> { SideBySideOutput(SideBySideDf) }
      [] label = "Select rows" -> { SelectRowsOutput(SelectRowsDf, multiselect) }
      [] label = "Range slider" -> { RangeSliderOutput(slider) }
      [] label = "Advanced selectbox" ->
            { AdvancedSelectboxOutput(load_data(1), gender, column) }
      [] label = "Seaborn" -> { SeabornOutput(Lineplot(<< >>, SeabornDf)) }
      [] label = "Wordcloud" ->
            { WordcloudOutput(Imshow(<< >>, WordCloudGenerate(text, seed))) :
                  seed \in 0..MaxSeed }
      [] label = "Emojis" -> { EmojisOutput }

\* the value of df a finished run of the block of this label leaves behind
OwnDf(label) ==
    CASE label = "Dataframe formatting" -> df.bound /\ df = artifacts[2].data
      [] label = "Side-by-side charts" -> df.bound /\ df = SideBySideDf
      [] label = "Select rows" -> df.bound /\ df = SelectRowsDf
      [] label = "Seaborn" -> df.bound /\ df = SeabornDf
      [] OTHER -> ~df.bound

\* C9: what a finished run displays is the output of the block of the
\* current selection alone, built from that block's data and the current
\* widget values; df and dataset hold only what that block assigned, and
\* nothing drawn by an earlier block is left on the figure.
C9_OnlyCurrentBlock ==
    pc = Idle =>
        /\ figure = << >>
        /\ OwnDf(cookbook)
        /\ dataset.bound <=> (cookbook = "Advanced selectbox")
        /\ \E out \in ExpectedOutput(cookbook) :
               /\ Len(out) = Len(artifacts)
               /\ \A k \in 1..Len(out) : out[k] = artifacts[k]

C9_Witness ==
    /\ pc = Idle
    /\ cookbook = "Wordcloud"
    /\ interacted
    /\ loadCount = 1
    /\ Len(artifacts[2].elements) = 1

MenuLabels ==
    { "Description", "Dataframe formatting", "Side-by-side charts",
      "Select rows", "Range slider", "Advanced selectbox", "Seaborn",
      "Wordcloud", "Emojis" }

\* C10: the selection is always one of the nine menu labels, it is
\* "Description" until the user interacts, and a run never changes it.
C10_SelectionValid ==
    /\ [](/\ radio \in 1..Len(MenuOptions)
          /\ MenuOptions[radio] \in MenuLabels
          /\ pc # AtLine5 => (cookbook \in MenuLabels /\ cookbook = MenuOptions[radio])
          /\ ~interacted => MenuOptions[radio] = "Description"
          /\ (~interacted /\ pc # AtLine5) => cookbook = "Description")
    /\ [][(pc \in 1..Finished) => (cookbook' = cookbook)]_vars

C10_Witness ==
    /\ pc = Idle
    /\ interacted
    /\ cookbook = "Emojis"
    /\ radio = 9

====
